---- MODULE Spec2Model ----
(***************************************************************************)
(* Model of the offline recommendation engine of                           *)
(* app/src/main/python/music_ml.py: the process-wide engine behind         *)
(* train_model / get_recommendation / get_model_status / reset_model, its  *)
(* scorer, its k-means clustering, its recent-recommendation window and    *)
(* the snapshot file ml_model.json of each model directory.                *)
(*                                                                         *)
(* Numbers.  A Python float x is represented by the integer x * Unit       *)
(* (two decimal digits), products and quotients are rescaled and rounded   *)
(* down.  Every literal of the source (weights, 0.7/0.3, 0.5, 0.95, ...)   *)
(* is a multiple of 1/Unit.                                                *)
(*                                                                         *)
(* Optional values.  Python's None is the empty sequence and a value x     *)
(* that is not None is the one-element sequence <<x>>.                     *)
(***************************************************************************)
EXTENDS Integers, Sequences, FiniteSets, TLC

VARIABLES
    ml_engine,   \* the module global _ml_engine and the fields of the object it names
    files,       \* model directory -> content of <dir>/ml_model.json
    call,        \* the module-level call made last and its arguments
    result,      \* what that call returned (before json.dumps)
    calls,       \* history: features of the successful recommend calls of the current engine
    save_failed, \* history: the current engine's last training could not write its snapshot
    after_reset  \* history: reset_model was the last call, get_model_status calls apart

vars == <<ml_engine, files, call, result, calls, save_failed, after_reset>>

-----------------------------------------------------------------------------
(* Fixed-point arithmetic *)

Unit == 10 * 10

Min(a, b) == IF a <= b THEN a ELSE b

Max(a, b) == IF a >= b THEN a ELSE b

Abs(a) == IF a >= 0 THEN a ELSE -a

Clamp(lo, hi, x) == Max(lo, Min(hi, x))

FMul(a, b) == (a * b) \div Unit

FDiv(a, b) == (a * Unit) \div b

\* floor of the square root of a natural number
ISqrt(x) == CHOOSE r \in 0..x : r * r <= x /\ (r + 1) * (r + 1) > x

RECURSIVE SumSeq(_)
SumSeq(s) == IF s = <<>> THEN 0 ELSE Head(s) + SumSeq(Tail(s))

\* s[-n:]
LastN(s, n) == IF Len(s) <= n THEN s ELSE SubSeq(s, Len(s) - n + 1, Len(s))

\* A list built by a comprehension, as a sequence with its elements computed
\* (a function constructor alone is evaluated anew at every use)
List(f) == <<>> \o f

None == <<>>

Some(x) == <<x>>

\* Python truthiness of an optional list: neither None nor []
Truthy(opt) == opt # None /\ opt[1] # <<>>

-----------------------------------------------------------------------------
(* Program constants *)

NClusters == 5

MinSamples == 5

WindowCap == 50

LloydIterations == 10

ContextWindow == 10

DiversityWindow == 5

\* the weight table of RecommendationScorer.score, in hundredths
WeightsPct == <<10, 18, 12, 10, 8, 8, 8, 4, 4, 6, 5, 3, 2, 2>>

Weights == [i \in 1..Len(WeightsPct) |-> (WeightsPct[i] * Unit) \div 100]

-----------------------------------------------------------------------------
(* VectorMath *)

\* sum(x * y for x, y in zip(a, b)).  Every product is a number of the
\* representation: the square of a value too small for it is 0, as the
\* square of a float underflows.
Dot(a, b) == SumSeq([i \in 1..Min(Len(a), Len(b)) |-> FMul(a[i], b[i])])

\* math.sqrt(sum(x * x for x in a))
Magnitude(a) == ISqrt(Dot(a, a) * Unit)

\* The magnitude of a vector whose sum of squares is not 0 is at least the
\* root of the smallest positive number, and the product of two such
\* magnitudes is not 0.
cosine_similarity(a, b) ==
    IF Len(a) # Len(b) \/ Len(a) = 0 THEN 0
    ELSE IF Magnitude(a) = 0 \/ Magnitude(b) = 0 THEN 0
    ELSE Clamp(0, Unit, FDiv(Dot(a, b), FMul(Magnitude(a), Magnitude(b))))

\* play_count is an integer; alpha, beta, gamma keep their default values
confidence_score(completion_rate, skip_rate, play_count) ==
    LET normalized_plays == Min((play_count * Unit) \div 100, Unit)
    IN  FMul(Unit \div 2, completion_rate)
        + FMul((3 * Unit) \div 10, Unit - skip_rate)
        + FMul((2 * Unit) \div 10, normalized_plays)

-----------------------------------------------------------------------------
(* SimpleClustering *)

NewClustering == [n_clusters |-> NClusters, centroids |-> <<>>]

\* The square of _distance: zip stops at the shorter vector.  math.sqrt is
\* monotone, so the index of the least distance is that of the least square.
DistanceSq(a, b) ==
    SumSeq([i \in 1..Min(Len(a), Len(b)) |-> (a[i] - b[i]) * (a[i] - b[i])])

\* Variant of Nearest: the last of the nearest
NearestLast(point, centroids) ==
    LET distances == List([j \in 1..Len(centroids) |->
                               DistanceSq(point, centroids[j])])
    IN  CHOOSE i \in 1..Len(centroids) :
            /\ \A j \in 1..Len(centroids) : distances[i] <= distances[j]
            /\ \A j \in (i + 1)..Len(centroids) : distances[j] > distances[i]

\* distances.index(min(distances)), counted from 1: the first of the nearest
Nearest(point, centroids) ==
    LET distances == List([j \in 1..Len(centroids) |->
                               DistanceSq(point, centroids[j])])
    IN  CHOOSE i \in 1..Len(centroids) :
            /\ \A j \in 1..Len(centroids) : distances[i] <= distances[j]
            /\ \A j \in 1..(i - 1) : distances[j] > distances[i]

\* [sum(dim) / len(cluster) for dim in zip(*cluster)]
MeanPoint(cluster) ==
    LET dims == CHOOSE d \in 0..Len(cluster[1]) :
                    /\ \A k \in 1..Len(cluster) : Len(cluster[k]) >= d
                    /\ \/ d = Len(cluster[1])
                       \/ \E k \in 1..Len(cluster) : Len(cluster[k]) = d
    IN  List([d \in 1..dims |->
            SumSeq([k \in 1..Len(cluster) |-> cluster[k][d]]) \div Len(cluster)])

\* Variant of LloydStep: the centroid of an empty cluster becomes the origin
LloydStepResetsEmpty(centroids, X) ==
    LET nearest == List([k \in 1..Len(X) |-> Nearest(X[k], centroids)])
        Cluster(i) ==
            LET Assigned(k) == nearest[k] = i
                members == SelectSeq(List([k \in 1..Len(X) |-> k]), Assigned)
            IN  List([m \in 1..Len(members) |-> X[members[m]]])
    IN  List([i \in 1..Len(centroids) |->
            IF Cluster(i) = <<>> THEN [d \in 1..Len(centroids[i]) |-> 0]
            ELSE MeanPoint(Cluster(i))])

\* one iteration of the loop of fit: assign every point to its nearest
\* centroid, then update the centroids of the non-empty clusters
LloydStep(centroids, X) ==
    LET nearest == List([k \in 1..Len(X) |-> Nearest(X[k], centroids)])
        Cluster(i) ==
            LET Assigned(k) == nearest[k] = i
                members == SelectSeq(List([k \in 1..Len(X) |-> k]), Assigned)
            IN  List([m \in 1..Len(members) |-> X[members[m]]])
    IN  List([i \in 1..Len(centroids) |->
            IF Cluster(i) = <<>> THEN centroids[i] ELSE MeanPoint(Cluster(i))])

RECURSIVE Lloyd(_, _, _)
Lloyd(centroids, X, n) ==
    IF n = 0 THEN centroids ELSE Lloyd(LloydStep(centroids, X), X, n - 1)

\* the sequences of k distinct elements of the set S
RECURSIVE Arrangements(_, _)
Arrangements(S, k) ==
    IF k = 0 THEN {<<>>}
    ELSE UNION {{<<x>> \o t : t \in Arrangements(S \ {x}, k - 1)} : x \in S}

\* random.sample(X, k): every outcome, as the list of the sampled elements
\* the arrangements for the default k and a list of k or k + 1 elements,
\* computed once
ArrangementsOfK == Arrangements(1..NClusters, NClusters)

ArrangementsOfK1 == Arrangements(1..(NClusters + 1), NClusters)

Positions(n, k) ==
    IF k = NClusters /\ n = NClusters THEN ArrangementsOfK
    ELSE IF k = NClusters /\ n = NClusters + 1 THEN ArrangementsOfK1
    ELSE Arrangements(1..n, k)

Samples(X, k) == {List([i \in 1..k |-> X[s[i]]]) : s \in Positions(Len(X), k)}

\* Variant of ClusteringFit: fewer points than clusters are not fitted
ClusteringFitSkipsFew(clustering, X, init) ==
    IF Len(X) < clustering.n_clusters
    THEN clustering
    ELSE [clustering EXCEPT !.centroids = Lloyd(init, X, LloydIterations)]

\* SimpleClustering.fit; init is what random.sample returned
ClusteringFit(clustering, X, init) ==
    IF Len(X) < clustering.n_clusters
    THEN [clustering EXCEPT !.centroids = X]
    ELSE [clustering EXCEPT !.centroids = Lloyd(init, X, LloydIterations)]

\* the index predict_cluster returns (counted from 0)
predict_cluster(clustering, point) ==
    IF clustering.centroids = <<>> THEN 0
    ELSE Nearest(point, clustering.centroids) - 1

-----------------------------------------------------------------------------
(* RecommendationScorer *)

NewScorer == [user_mean |-> None, user_std |-> None, user_profile_vector |-> None]

Column(X, i) == [k \in 1..Len(X) |-> X[k][i]]

Mean(values) == SumSeq(values) \div Len(values)

\* math.sqrt(variance) if variance > 0 else 1.0; a positive variance has a
\* positive root, at least one unit here
Std(values) ==
    LET mean == Mean(values)
        sq == SumSeq([k \in 1..Len(values) |->
                          (values[k] - mean) * (values[k] - mean)])
    IN  IF sq > 0 THEN Max(1, ISqrt(sq \div Len(values))) ELSE Unit

\* The number of passes of the loop over range(n_features) that complete:
\* pass i raises IndexError at h[i] when an entry is shorter.
CompletedPasses(X) ==
    CHOOSE n \in 0..Len(X[1]) :
        /\ \A k \in 1..Len(X) : Len(X[k]) >= n
        /\ \/ n = Len(X[1])
           \/ \E k \in 1..Len(X) : Len(X[k]) = n

\* Variant of ScorerFit: a profile vector that is set is kept
ScorerFitKeepsProfile(scorer, X) ==
    IF X = <<>> THEN [scorer |-> scorer, raised |-> FALSE]
    ELSE LET n == CompletedPasses(X)
             mean == List([i \in 1..n |-> Mean(Column(X, i))])
             std == List([i \in 1..n |-> Std(Column(X, i))])
         IN  IF n < Len(X[1])
             THEN [scorer |-> [scorer EXCEPT !.user_mean = Some(mean),
                                             !.user_std = Some(std)],
                   raised |-> TRUE]
             ELSE [scorer |-> [user_mean |-> Some(mean), user_std |-> Some(std),
                               user_profile_vector |->
                                   IF scorer.user_profile_vector # None
                                   THEN scorer.user_profile_vector
                                   ELSE Some(mean)],
                   raised |-> FALSE]

\* RecommendationScorer.fit: the scorer it leaves, and whether it raised.
\* user_mean and user_std are rebound to fresh lists before the loop, so a
\* pass that raises leaves the lists filled so far and the old profile vector.
ScorerFit(scorer, X) ==
    IF X = <<>> THEN [scorer |-> scorer, raised |-> FALSE]
    ELSE LET n == CompletedPasses(X)
             mean == List([i \in 1..n |-> Mean(Column(X, i))])
             std == List([i \in 1..n |-> Std(Column(X, i))])
         IN  IF n < Len(X[1])
             THEN [scorer |-> [scorer EXCEPT !.user_mean = Some(mean),
                                             !.user_std = Some(std)],
                   raised |-> TRUE]
             ELSE [scorer |-> [user_mean |-> Some(mean), user_std |-> Some(std),
                               user_profile_vector |-> Some(mean)],
                   raised |-> FALSE]

\* the weights after the padding step, for n similarity scores
PaddedWeights(n) ==
    IF n <= Len(Weights) THEN SubSeq(Weights, 1, n)
    ELSE LET remaining_weight == Unit - SumSeq(Weights)
             extra_features == n - Len(Weights)
         IN  [i \in 1..n |-> IF i <= Len(Weights) THEN Weights[i]
                             ELSE remaining_weight \div extra_features]

\* lines 169-173: the similarity terms 1 / (1 + z_score), one for each
\* position the candidate, the mean and the std all have
similarity_scores(scorer, song_features) ==
    LET mean == scorer.user_mean[1]
        std == scorer.user_std[1]
        n == Min(Len(song_features), Min(Len(mean), Len(std)))
    IN  List([i \in 1..n |->
            LET z_score == IF std[i] > 0
                           THEN FDiv(Abs(song_features[i] - mean[i]), std[i])
                           ELSE 0
            IN  FDiv(Unit, Unit + z_score)])

\* Variant of score: step 4, the skip penalty, is left out
ScoreWithoutSkipPenalty(scorer, song_features) ==
    IF ~Truthy(scorer.user_mean) \/ ~Truthy(scorer.user_std) THEN Unit \div 2
    ELSE LET similarities == similarity_scores(scorer, song_features)
             n == Len(similarities)
             weights == PaddedWeights(n)
             weighted == SumSeq([i \in 1..n |-> FMul(similarities[i], weights[i])])
             blended ==
                 IF /\ Truthy(scorer.user_profile_vector)
                    /\ Len(song_features) = Len(scorer.user_profile_vector[1])
                 THEN FMul(weighted, (7 * Unit) \div 10)
                      + FMul(cosine_similarity(song_features,
                                               scorer.user_profile_vector[1]),
                             (3 * Unit) \div 10)
                 ELSE weighted
         IN  Clamp(0, Unit, blended)

\* Variant of score: the result is not clamped to [0, 1]
ScoreUnclamped(scorer, song_features) ==
    IF ~Truthy(scorer.user_mean) \/ ~Truthy(scorer.user_std) THEN Unit \div 2
    ELSE LET similarities == similarity_scores(scorer, song_features)
             n == Len(similarities)
             weights == PaddedWeights(n)
             weighted == SumSeq([i \in 1..n |-> FMul(similarities[i], weights[i])])
             blended ==
                 IF /\ Truthy(scorer.user_profile_vector)
                    /\ Len(song_features) = Len(scorer.user_profile_vector[1])
                 THEN FMul(weighted, (7 * Unit) \div 10)
                      + FMul(cosine_similarity(song_features,
                                               scorer.user_profile_vector[1]),
                             (3 * Unit) \div 10)
                 ELSE weighted
         IN  IF Len(song_features) > 2
             THEN FMul(blended, Unit - FMul(song_features[3], Unit \div 2))
             ELSE blended

\* RecommendationScorer.score
score(scorer, song_features) ==
    IF ~Truthy(scorer.user_mean) \/ ~Truthy(scorer.user_std) THEN Unit \div 2
    ELSE LET similarities == similarity_scores(scorer, song_features)
             n == Len(similarities)
             weights == PaddedWeights(n)
             weighted == SumSeq([i \in 1..n |-> FMul(similarities[i], weights[i])])
             blended ==
                 IF /\ Truthy(scorer.user_profile_vector)
                    /\ Len(song_features) = Len(scorer.user_profile_vector[1])
                 THEN FMul(weighted, (7 * Unit) \div 10)
                      + FMul(cosine_similarity(song_features,
                                               scorer.user_profile_vector[1]),
                             (3 * Unit) \div 10)
                 ELSE weighted
             penalised ==
                 IF Len(song_features) > 2
                 THEN FMul(blended, Unit - FMul(song_features[3], Unit \div 2))
                 ELSE blended
         IN  Clamp(0, Unit, penalised)

\* Variant of score_with_context: every song passed is compared, not the
\* last five
ScoreWithContextAll(scorer, song_features, recent_songs) ==
    LET base_score == score(scorer, song_features)
        diversity_penalty ==
            SumSeq([i \in 1..Len(recent_songs) |->
                        cosine_similarity(song_features, recent_songs[i])])
                \div Len(recent_songs)
    IN  IF recent_songs = <<>> THEN base_score
        ELSE FMul(base_score, Unit - FMul((3 * Unit) \div 10, diversity_penalty))

\* RecommendationScorer.score_with_context
score_with_context(scorer, song_features, recent_songs) ==
    LET base_score == score(scorer, song_features)
        last == LastN(recent_songs, DiversityWindow)
        diversity_penalty ==
            SumSeq([i \in 1..Len(last) |-> cosine_similarity(song_features, last[i])])
                \div Min(Len(recent_songs), DiversityWindow)
    IN  IF recent_songs = <<>> THEN base_score
        ELSE FMul(base_score, Unit - FMul((3 * Unit) \div 10, diversity_penalty))

-----------------------------------------------------------------------------
(* Snapshot files *)

\* model_dir or "."
ResolveDir(model_dir) == IF model_dir = "None" THEN "." ELSE model_dir

\* no ml_model.json in the directory
AbsentFile ==
    [kind |-> "absent", is_trained |-> FALSE,
     scorer_shape |-> "missing", scorer |-> NewScorer,
     clustering_shape |-> "missing", clustering |-> NewClustering]

\* a file json.load cannot parse (truncated by a failed write, or overwritten)
GarbageFile == [AbsentFile EXCEPT !.kind = "garbage"]

\* Variant of Snapshot: the snapshot is taken before the flag is set
SnapshotBeforeFlag(e) ==
    [kind |-> "json", is_trained |-> FALSE,
     scorer_shape |-> "object", scorer |-> e.scorer,
     clustering_shape |-> "object", clustering |-> e.clustering]

\* model_data of _save_model, as json.dump writes it
Snapshot(e) ==
    [kind |-> "json", is_trained |-> e.is_trained,
     scorer_shape |-> "object", scorer |-> e.scorer,
     clustering_shape |-> "object", clustering |-> e.clustering]

\* Variant of SaveModel without the except clause: a failure is raised
SaveModelUncaught(e, old_file, outcome) ==
    [file |-> CASE outcome = "ok" -> Snapshot(e)
                [] outcome = "open_failed" -> old_file
                [] OTHER -> GarbageFile,
     raised |-> outcome # "ok"]

\* _save_model: the file it leaves and whether it raised.  outcome is what
\* the file system does: "ok", "open_failed" (open raises, the file is as it
\* was) or "write_failed" (json.dump raises after open truncated the file).
\* The except clause swallows both failures.
SaveModel(e, old_file, outcome) ==
    [file |-> CASE outcome = "ok" -> Snapshot(e)
                [] outcome = "open_failed" -> old_file
                [] OTHER -> GarbageFile,
     raised |-> FALSE]

\* Variant of LoadModel: the "clustering" entry of the file is not read
LoadModelWithoutClustering(e, file) ==
    IF file.kind # "json" THEN e
    ELSE [e EXCEPT !.is_trained = file.is_trained,
                   !.scorer = IF file.scorer_shape = "missing"
                              THEN NewScorer ELSE file.scorer]

\* _load_model on a freshly constructed engine e
LoadModel(e, file) ==
    IF file.kind # "json" THEN e
    ELSE LET e1 == [e EXCEPT !.is_trained = file.is_trained]
             e2 == [e1 EXCEPT !.scorer = IF file.scorer_shape = "missing"
                                         THEN NewScorer ELSE file.scorer]
             e3 == [e2 EXCEPT !.clustering = IF file.clustering_shape = "missing"
                                             THEN NewClustering ELSE file.clustering]
         IN  IF file.scorer_shape = "bad" THEN e1
             ELSE IF file.clustering_shape = "bad" THEN e2
             ELSE e3

-----------------------------------------------------------------------------
(* MusicRecommendationML *)

NoEngine ==
    [exists |-> FALSE, is_trained |-> FALSE, model_dir |-> ".",
     recent_recommendations |-> <<>>,
     scorer |-> NewScorer, clustering |-> NewClustering]

\* __init__ before _load_model
FreshEngine(dir) == [NoEngine EXCEPT !.exists = TRUE, !.model_dir = dir]

\* Variant of NewEngine: the window of the engine there was is kept
NewEngineKeepsWindow(model_dir, fs) ==
    [LoadModel(FreshEngine(ResolveDir(model_dir)), fs[ResolveDir(model_dir)])
        EXCEPT !.recent_recommendations = ml_engine.recent_recommendations]

\* MusicRecommendationML(model_dir), with the files fs on disk
NewEngine(model_dir, fs) ==
    LoadModel(FreshEngine(ResolveDir(model_dir)), fs[ResolveDir(model_dir)])

NoResult ==
    [kind |-> "none", success |-> FALSE, has_samples |-> FALSE, samples_trained |-> 0,
     message |-> "", score |-> 0, confidence |-> 0, cluster |-> 0,
     has_diversity |-> FALSE, diversity_score |-> 0,
     is_trained |-> FALSE, has_scorer |-> FALSE, n_clusters |-> 0]

InsufficientMsg == "Insufficient training data (need at least 5 samples)"

TrainedMsg == "Training completed successfully"

\* "Training failed: " followed by the text of the exception
TrainFailedMsg == "Training failed"

NotTrainedMsg == "Model not trained yet"

RecommendedMsg == "Recommendation generated successfully"

\* "Recommendation failed: " followed by the text of the exception
RecommendFailedMsg == "Recommendation failed"

TrainResult(success, message) ==
    [NoResult EXCEPT !.kind = "train", !.success = success, !.message = message]

\* Variant of Insufficient: the threshold is one too low
InsufficientOffByOne(entries) == Len(entries) < MinSamples - 1

\* not user_history or len(user_history) < 5, for a parsed list
Insufficient(entries) == Len(entries) < MinSamples

Features(entries) == List([i \in 1..Len(entries) |-> entries[i].features])

\* whether train gets as far as the two fits without raising
Trainable(h) ==
    /\ h.json = "list"
    /\ ~Insufficient(h.entries)
    /\ \A i \in 1..Len(h.entries) : h.entries[i].has_features

\* what random.sample can return in clustering.fit, when fit gets there
InitChoices(e, h) ==
    IF /\ Trainable(h)
       /\ ~ScorerFit(e.scorer, Features(h.entries)).raised
       /\ Len(h.entries) >= e.clustering.n_clusters
    THEN Samples(Features(h.entries), e.clustering.n_clusters)
    ELSE {<<>>}

\* lines 291-296: the engine once both fits are done and the flag is set
Fitted(e, scorer, clustering) ==
    [e EXCEPT !.scorer = scorer, !.clustering = clustering, !.is_trained = TRUE]

\* Variant of TrainFit: the flag is set before the features are extracted
TrainFitFlagFirst(e, h, init) ==
    IF h.json \in {"garbage", "number"} THEN [engine |-> e, status |-> "raised"]
    ELSE IF h.json = "null" \/ Insufficient(h.entries)
         THEN [engine |-> e, status |-> "insufficient"]
    ELSE IF \E i \in 1..Len(h.entries) : ~h.entries[i].has_features
         THEN [engine |-> [e EXCEPT !.is_trained = TRUE], status |-> "raised"]
    ELSE LET sf == ScorerFit(e.scorer, Features(h.entries))
         IN  IF sf.raised
             THEN [engine |-> [e EXCEPT !.scorer = sf.scorer, !.is_trained = TRUE],
                   status |-> "raised"]
             ELSE [engine |-> Fitted(e, sf.scorer,
                                     ClusteringFit(e.clustering, Features(h.entries),
                                                   init)),
                   status |-> "fitted"]

\* MusicRecommendationML.train on engine e, lines 279-296: the engine it
\* leaves and how far it got.  h is the parsed argument: json is "garbage"
\* (json.loads raises), "null" (a falsy value: null, 0, "", {}), "number" (a
\* truthy value without len()) or "list".
TrainFit(e, h, init) ==
    IF h.json = "garbage" THEN [engine |-> e, status |-> "raised"]
    ELSE IF h.json = "null" THEN [engine |-> e, status |-> "insufficient"]
    ELSE IF h.json = "number" THEN [engine |-> e, status |-> "raised"]
    ELSE IF Insufficient(h.entries) THEN [engine |-> e, status |-> "insufficient"]
    ELSE IF \E i \in 1..Len(h.entries) : ~h.entries[i].has_features
         THEN [engine |-> e, status |-> "raised"]
    ELSE LET sf == ScorerFit(e.scorer, Features(h.entries))
         IN  IF sf.raised
             THEN [engine |-> [e EXCEPT !.scorer = sf.scorer], status |-> "raised"]
             ELSE [engine |-> Fitted(e, sf.scorer,
                                     ClusteringFit(e.clustering, Features(h.entries),
                                                   init)),
                   status |-> "fitted"]

\* MusicRecommendationML.train, lines 297-309: the save and what train
\* returns, fit being what lines 279-296 did.  An exception of _save_model
\* would reach the except clause of train like any other.
TrainReturn(fit, h, old_file, outcome) ==
    IF fit.status = "insufficient"
    THEN [engine |-> fit.engine, file |-> old_file, saved |-> FALSE,
          result |-> TrainResult(FALSE, InsufficientMsg)]
    ELSE IF fit.status = "raised"
    THEN [engine |-> fit.engine, file |-> old_file, saved |-> FALSE,
          result |-> TrainResult(FALSE, TrainFailedMsg)]
    ELSE LET sv == SaveModel(fit.engine, old_file, outcome)
         IN  IF sv.raised
             THEN [engine |-> fit.engine, file |-> sv.file, saved |-> TRUE,
                   result |-> TrainResult(FALSE, TrainFailedMsg)]
             ELSE [engine |-> fit.engine, file |-> sv.file, saved |-> TRUE,
                   result |-> [TrainResult(TRUE, TrainedMsg) EXCEPT
                                   !.has_samples = TRUE,
                                   !.samples_trained = Len(h.entries)]]

\* Variant of TrackRecommendation: pop() instead of pop(0)
TrackDropsNewest(recent, song_features) ==
    LET appended == Append(recent, song_features)
    IN  IF Len(appended) > WindowCap THEN SubSeq(appended, 1, WindowCap) ELSE appended

\* lines 358-360: append, then drop the oldest entry beyond the cap
TrackRecommendation(recent, song_features) ==
    LET appended == Append(recent, song_features)
    IN  IF Len(appended) > WindowCap THEN Tail(appended) ELSE appended

\* the result of lines 322-328
NotTrainedResult ==
    [NoResult EXCEPT !.kind = "recommendation", !.score = 50 * Unit,
                     !.confidence = (3 * Unit) \div 10, !.cluster = -1,
                     !.has_diversity = TRUE, !.diversity_score = Unit,
                     !.message = NotTrainedMsg]

\* the result of lines 371-376: it has no diversity_score
RecommendFailedResult ==
    [NoResult EXCEPT !.kind = "recommendation", !.score = 50 * Unit,
                     !.confidence = (3 * Unit) \div 10, !.cluster = -1,
                     !.message = RecommendFailedMsg]

\* Whether lines 330-360 get through the parsed argument: a list of numbers
\* ("list") does, and so does a value that has len() 0 and nothing to iterate
\* over, the empty object or the empty string ("empty"): every step treats it
\* as the empty list.  Nothing else does.
Scorable(input) == input.json \in {"list", "empty"}

\* Variant of RecommendTrained: the confidence is returned as computed
RecommendTrainedUnclamped(e, input) ==
    IF ~Scorable(input)
    THEN [engine |-> e, result |-> RecommendFailedResult]
    ELSE LET f == input.features
             base_score == score_with_context(e.scorer, f,
                               LastN(e.recent_recommendations, ContextWindow)) * 100
             play_freq == IF Len(f) > 0 THEN f[1] ELSE Unit \div 2
             completion == IF Len(f) > 1 THEN f[2] ELSE Unit \div 2
             skip_rate == IF Len(f) > 2 THEN f[3] ELSE 0
         IN  [engine |-> [e EXCEPT !.recent_recommendations =
                              TrackRecommendation(e.recent_recommendations, f)],
              result |-> [NoResult EXCEPT
                  !.kind = "recommendation",
                  !.score = base_score,
                  !.confidence = confidence_score(completion, skip_rate,
                                                  (play_freq * 100) \div Unit),
                  !.cluster = predict_cluster(e.clustering, f),
                  !.has_diversity = TRUE,
                  !.diversity_score = Unit - FMul(skip_rate, Unit \div 2),
                  !.message = RecommendedMsg]]

\* Variant of RecommendTrained: the argument is tracked as soon as it is
\* parsed, before it is scored
RecommendTrainedTracksFirst(e, input) ==
    IF input.json = "garbage"
    THEN [engine |-> e, result |-> RecommendFailedResult]
    ELSE IF ~Scorable(input)
    THEN [engine |-> [e EXCEPT !.recent_recommendations =
                          TrackRecommendation(e.recent_recommendations,
                                              input.features)],
          result |-> RecommendFailedResult]
    ELSE RecommendTrainedUnclamped(e, input)

\* lines 330-376 on a trained engine.  input is the parsed argument: json is
\* "garbage" (json.loads raises), "number" (a number, null, a non-empty string
\* or object, a list of strings: an operation on it raises), "empty" (the
\* empty object or string, features being <<>>) or "list" with its features.
RecommendTrained(e, input) ==
    IF ~Scorable(input)
    THEN [engine |-> e, result |-> RecommendFailedResult]
    ELSE LET f == input.features
             base_score == score_with_context(e.scorer, f,
                               LastN(e.recent_recommendations, ContextWindow)) * 100
             cluster_id == predict_cluster(e.clustering, f)
             play_freq == IF Len(f) > 0 THEN f[1] ELSE Unit \div 2
             completion == IF Len(f) > 1 THEN f[2] ELSE Unit \div 2
             skip_rate == IF Len(f) > 2 THEN f[3] ELSE 0
             confidence == confidence_score(completion, skip_rate,
                                            (play_freq * 100) \div Unit)
         IN  [engine |-> [e EXCEPT !.recent_recommendations =
                              TrackRecommendation(e.recent_recommendations, f)],
              result |-> [NoResult EXCEPT
                  !.kind = "recommendation",
                  !.score = base_score,
                  !.confidence = Min((95 * Unit) \div 100,
                                     Max((3 * Unit) \div 10, confidence)),
                  !.cluster = cluster_id,
                  !.has_diversity = TRUE,
                  !.diversity_score = Unit - FMul(skip_rate, Unit \div 2),
                  !.message = RecommendedMsg]]

\* Variant of Recommend: the argument is parsed before the flag is tested
RecommendParsesFirst(e, input) ==
    IF input.json # "list" THEN [engine |-> e, result |-> RecommendFailedResult]
    ELSE IF ~e.is_trained THEN [engine |-> e, result |-> NotTrainedResult]
    ELSE RecommendTrained(e, input)

\* Variant of Recommend: the untrained path tracks the features too
RecommendTracksUntrained(e, input) ==
    IF ~e.is_trained
    THEN [engine |-> [e EXCEPT !.recent_recommendations =
                          TrackRecommendation(e.recent_recommendations,
                                              input.features)],
          result |-> NotTrainedResult]
    ELSE RecommendTrained(e, input)

\* MusicRecommendationML.recommend
Recommend(e, input) ==
    IF ~e.is_trained THEN [engine |-> e, result |-> NotTrainedResult]
    ELSE RecommendTrained(e, input)

\* MusicRecommendationML.get_status
GetStatus(e) ==
    [NoResult EXCEPT !.kind = "status", !.is_trained = e.is_trained,
                     !.has_scorer = (e.scorer.user_mean # None),
                     !.n_clusters = e.clustering.n_clusters]

-----------------------------------------------------------------------------
(* Inputs *)

Dirs == {".", "d1"}

\* the model_dir argument of a call: None (the default) or a directory
DirArgs == {"None", "d1"}

SaveOutcomes == {"ok", "open_failed", "write_failed"}

vA == <<Unit \div 2, Unit \div 2, Unit \div 2>>

vB == <<Unit \div 5, (9 * Unit) \div 10, Unit \div 10>>

Entry(f) == [has_features |-> TRUE, features |-> f]

\* an entry without a "features" key
NoFeatures == [has_features |-> FALSE, features |-> <<>>]

Repeat(x, n) == [i \in 1..n |-> x]

ListOf(entries) == [json |-> "list", entries |-> entries]

NoHistory == [json |-> "garbage", entries |-> <<>>]

\* five entries, the third one shorter than the first
Ragged ==
    ListOf([Repeat(Entry(vA), MinSamples) EXCEPT ![3] = Entry(<<Unit \div 2>>)])

Histories ==
    { NoHistory,
      ListOf(<<>>),
      ListOf(Repeat(Entry(vA), MinSamples - 1)),
      ListOf(Repeat(Entry(vA), MinSamples)),
      ListOf(Repeat(Entry(vB), MinSamples)),
      ListOf([Repeat(Entry(vA), MinSamples) EXCEPT ![2] = NoFeatures]),
      Ragged }

NoInput == [json |-> "garbage", features |-> <<>>]

Candidates == {NoInput, [json |-> "list", features |-> vA]}

\* the longest window the calls of Next build
MaxRecent == 2

-----------------------------------------------------------------------------
(* The module-level operations *)

\* pass and sample are those of a SimpleClustering.fit followed pass by pass
NoCall ==
    [op |-> "none", dir |-> "None", history |-> NoHistory, input |-> NoInput,
     save |-> "none", remove_ok |-> TRUE, pass |-> 0, sample |-> <<>>]

\* Variant of GetEngine: an engine of another directory is replaced
GetEngineOfDir(model_dir) ==
    IF ml_engine.exists /\ ml_engine.model_dir = ResolveDir(model_dir)
    THEN ml_engine
    ELSE NewEngine(model_dir, files)

\* _get_engine(model_dir): the engine the call works on
GetEngine(model_dir) ==
    IF ml_engine.exists THEN ml_engine ELSE NewEngine(model_dir, files)

Init ==
    /\ ml_engine = NoEngine
    /\ files = [d \in Dirs |-> AbsentFile]
    /\ call = NoCall
    /\ result = NoResult
    /\ calls = <<>>
    /\ save_failed = FALSE
    /\ after_reset = FALSE

\* train_model(user_history_json, model_dir); outcomes is what the file
\* system may do to the save
TrainModel(h, model_dir, outcomes) ==
    LET e == GetEngine(model_dir)
    IN  \E init \in InitChoices(e, h) :
        \E fit \in {TrainFit(e, h, init)} :
        \E outcome \in outcomes :
        \E r \in {TrainReturn(fit, h, files[e.model_dir], outcome)} :
            /\ outcome = "ok" \/ r.saved
            /\ ml_engine' = r.engine
            /\ files' = [files EXCEPT ![e.model_dir] = r.file]
            /\ call' = [NoCall EXCEPT !.op = "train_model", !.dir = model_dir,
                                      !.history = h,
                                      !.save = IF r.saved THEN outcome ELSE "none"]
            /\ result' = r.result
            /\ calls' = IF ml_engine.exists THEN calls ELSE <<>>
            /\ save_failed' = IF r.saved THEN outcome # "ok"
                              ELSE ml_engine.exists /\ save_failed
            /\ after_reset' = FALSE

\* get_recommendation(song_features_json, model_dir)
GetRecommendation(input, model_dir) ==
    \E r \in {Recommend(GetEngine(model_dir), input)} :
        /\ ml_engine' = r.engine
        /\ call' = [NoCall EXCEPT !.op = "get_recommendation", !.dir = model_dir,
                                  !.input = input]
        /\ result' = r.result
        /\ calls' = IF r.result.message = RecommendedMsg
                    THEN Append(IF ml_engine.exists THEN calls ELSE <<>>, input.features)
                    ELSE IF ml_engine.exists THEN calls ELSE <<>>
        /\ save_failed' = (ml_engine.exists /\ save_failed)
        /\ after_reset' = FALSE
        /\ UNCHANGED files

\* Variant of GetModelStatus: every call constructs the engine anew
GetModelStatusReloads(model_dir) ==
    LET e == NewEngine(model_dir, files)
    IN  /\ ml_engine' = e
        /\ call' = [NoCall EXCEPT !.op = "get_model_status", !.dir = model_dir]
        /\ result' = GetStatus(e)
        /\ calls' = IF ml_engine.exists THEN calls ELSE <<>>
        /\ save_failed' = (ml_engine.exists /\ save_failed)
        /\ UNCHANGED <<files, after_reset>>

\* get_model_status(model_dir)
GetModelStatus(model_dir) ==
    LET e == GetEngine(model_dir)
    IN  /\ ml_engine' = e
        /\ call' = [NoCall EXCEPT !.op = "get_model_status", !.dir = model_dir]
        /\ result' = GetStatus(e)
        /\ calls' = IF ml_engine.exists THEN calls ELSE <<>>
        /\ save_failed' = (ml_engine.exists /\ save_failed)
        /\ UNCHANGED <<files, after_reset>>

\* reset_model(model_dir); remove_ok is whether os.remove succeeds
ResetModel(model_dir, remove_ok) ==
    LET attempted == ml_engine.exists /\ files[ml_engine.model_dir].kind # "absent"
        left == IF attempted /\ remove_ok
                THEN [files EXCEPT ![ml_engine.model_dir] = AbsentFile]
                ELSE files
    IN  /\ remove_ok \/ attempted
        /\ files' = left
        /\ ml_engine' = NewEngine(model_dir, left)
        /\ call' = [NoCall EXCEPT !.op = "reset_model", !.dir = model_dir,
                                  !.remove_ok = remove_ok]
        /\ result' = [NoResult EXCEPT !.kind = "reset", !.success = TRUE,
                                      !.message = "Model reset"]
        /\ calls' = <<>>
        /\ save_failed' = FALSE
        /\ after_reset' = TRUE

\* The process ends and a new one imports the module: line 414 binds
\* _ml_engine to None, the files stay.
ProcessStart ==
    /\ ml_engine.exists
    /\ ml_engine' = NoEngine
    /\ call' = [NoCall EXCEPT !.op = "start"]
    /\ result' = NoResult
    /\ calls' = <<>>
    /\ save_failed' = FALSE
    /\ after_reset' = FALSE
    /\ UNCHANGED files

\* The file of a directory is overwritten from outside the program
CorruptSnapshot(dir, file) ==
    /\ files[dir] # file
    /\ files' = [files EXCEPT ![dir] = file]
    /\ call' = [NoCall EXCEPT !.op = "corrupt"]
    /\ result' = NoResult
    /\ UNCHANGED <<ml_engine, calls, save_failed, after_reset>>

\* whether the call would lengthen the window beyond the model's bound
WithinBound(input, model_dir) ==
    \/ ~Scorable(input)
    \/ ~GetEngine(model_dir).is_trained
    \/ Len(GetEngine(model_dir).recent_recommendations) < MaxRecent

\* The program with a file system that may fail
Next ==
    \/ \E h \in Histories, d \in DirArgs : TrainModel(h, d, SaveOutcomes)
    \/ \E i \in Candidates, d \in DirArgs :
           WithinBound(i, d) /\ GetRecommendation(i, d)
    \/ \E d \in DirArgs : GetModelStatus(d)
    \/ \E d \in DirArgs, ok \in BOOLEAN : ResetModel(d, ok)
    \/ ProcessStart

Spec == Init /\ [][Next]_vars

\* The program with a file system that never fails
NextReliable ==
    \/ \E h \in Histories, d \in DirArgs : TrainModel(h, d, {"ok"})
    \/ \E i \in Candidates, d \in DirArgs :
           WithinBound(i, d) /\ GetRecommendation(i, d)
    \/ \E d \in DirArgs : GetModelStatus(d)
    \/ \E d \in DirArgs : ResetModel(d, TRUE)
    \/ ProcessStart

SpecReliable == Init /\ [][NextReliable]_vars

\* a snapshot whose "scorer" is no object
BadScorerFile ==
    [AbsentFile EXCEPT !.kind = "json", !.is_trained = TRUE, !.scorer_shape = "bad"]

\* a snapshot whose "clustering" is no object
BadClusteringFile ==
    [AbsentFile EXCEPT !.kind = "json", !.is_trained = TRUE,
                       !.scorer_shape = "object",
                       !.scorer = ScorerFit(NewScorer, Repeat(vA, MinSamples)).scorer,
                       !.clustering_shape = "bad"]

CorruptFiles == {GarbageFile, BadScorerFile, BadClusteringFile}

\* The program with a reliable file system and snapshot files that are
\* overwritten from outside
NextCorrupt ==
    \/ TrainModel(ListOf(Repeat(Entry(vA), MinSamples)), "None", {"ok"})
    \/ \E i \in Candidates : WithinBound(i, "None") /\ GetRecommendation(i, "None")
    \/ \E d \in DirArgs : GetModelStatus(d)
    \/ \E d \in DirArgs : ResetModel(d, TRUE)
    \/ ProcessStart
    \/ \E d \in Dirs, f \in CorruptFiles : CorruptSnapshot(d, f)

SpecCorrupt == Init /\ [][NextCorrupt]_vars

\* the number of recommend calls of SpecWindow
MaxWindowCalls == 52

\* the features of the n-th successful recommend call of SpecWindow: every
\* call has its own
WindowInput(n) ==
    [json |-> "list", features |-> <<n, Unit \div 2, Unit \div 10>>]

\* One engine, trained, then asked for more recommendations than the window holds
NextWindow ==
    \/ /\ calls = <<>>
       /\ \E h \in {ListOf(Repeat(Entry(vA), MinSamples)),
                    ListOf(Repeat(Entry(vB), MinSamples))} :
              TrainModel(h, "None", SaveOutcomes)
    \/ /\ Len(calls) < MaxWindowCalls
       /\ GetRecommendation(WindowInput(Len(calls) + 1), "None")
    \/ GetModelStatus("None")

SpecWindow == Init /\ [][NextWindow]_vars

-----------------------------------------------------------------------------
(* One engine scoring candidates of every length *)

\* [0.5] * 14
v14 == Repeat(Unit \div 2, 14)

\* a vector of 15 features, one more than the weight table has
v15 == List([i \in 1..15 |-> (9 * i) % (Unit + 1)])

\* a vector of 16 features
v16 == List([i \in 1..16 |-> (7 * i) % (Unit + 1)])

ScoringHistories ==
    { NoHistory,
      Ragged,
      ListOf([Repeat(Entry(vA), MinSamples) EXCEPT ![2] = NoFeatures]),
      ListOf([Repeat(Entry(vA), MinSamples) EXCEPT ![MinSamples] = Entry(vB)]),
      ListOf(Repeat(Entry(v14), MinSamples)),
      ListOf(Repeat(Entry(v15), MinSamples)) }

\* what is no list of numbers: a number, a string, null, a list of strings
WrongShape == [json |-> "number", features |-> <<>>]

\* the empty object {} or the empty string ""
EmptyObject == [json |-> "empty", features |-> <<>>]

\* candidates of 0, 1, 2, 3, 14 and 16 features, with values below 0 and above 1
ScoringCandidates ==
    { NoInput,
      WrongShape,
      EmptyObject,
      [json |-> "list", features |-> <<>>],
      [json |-> "list", features |-> <<2 * Unit>>],
      [json |-> "list", features |-> <<-Unit, 3 * Unit>>],
      [json |-> "list", features |-> <<Unit \div 2, Unit \div 2, 3 * Unit>>],
      [json |-> "list", features |-> v14],
      [json |-> "list", features |-> [v14 EXCEPT ![3] = -(2 * Unit)]],
      [json |-> "list", features |-> v16] }

\* the longest window the calls of NextScoring build
MaxScoringRecent == 2

\* The engine is trained (and trained again) before it recommends
NextScoring ==
    \/ /\ ml_engine.recent_recommendations = <<>>
       /\ \E h \in ScoringHistories : TrainModel(h, "None", {"ok"})
    \/ \E i \in ScoringCandidates :
           /\ \/ ~Scorable(i)
              \/ ~GetEngine("None").is_trained
              \/ Len(GetEngine("None").recent_recommendations) < MaxScoringRecent
           /\ GetRecommendation(i, "None")

SpecScoring == Init /\ [][NextScoring]_vars

-----------------------------------------------------------------------------
(* A SimpleClustering object fitted on fewer points than it has clusters *)

\* points of two features and of one
Points == {<<Unit \div 2, Unit \div 2>>, <<Unit \div 5, (9 * Unit) \div 10>>,
           <<Unit \div 2>>}

\* the longest list of points fitted
MaxPoints == 4

PointLists == UNION {[1..m -> Points] : m \in 0..MaxPoints}

\* the n_clusters of the objects: the default, and what a snapshot can hold
ClusterCounts == {NClusters - 2, NClusters, NClusters + 2}

\* SimpleClustering(n_clusters=k).fit(X) for fewer than k points; the object
\* is kept as the clustering of ml_engine
FitFewPoints(X, k) ==
    /\ Len(X) < k
    /\ ml_engine' = [FreshEngine(".") EXCEPT
                         !.clustering = ClusteringFit([n_clusters |-> k,
                                                       centroids |-> <<>>], X, <<>>)]
    /\ call' = [NoCall EXCEPT !.op = "fit",
                              !.history = ListOf([i \in 1..Len(X) |-> Entry(X[i])])]
    /\ result' = [NoResult EXCEPT !.kind = "fit", !.n_clusters = k]
    /\ UNCHANGED <<files, calls, save_failed, after_reset>>

\* predict_cluster(point) on the fitted object
PredictCluster(point) ==
    /\ ml_engine.exists
    /\ call' = [NoCall EXCEPT !.op = "predict_cluster",
                              !.input = [json |-> "list", features |-> point]]
    /\ result' = [NoResult EXCEPT !.kind = "cluster",
                      !.cluster = predict_cluster(ml_engine.clustering, point)]
    /\ UNCHANGED <<ml_engine, files, calls, save_failed, after_reset>>

NextClustering ==
    \/ \E X \in PointLists, k \in ClusterCounts : FitFewPoints(X, k)
    \/ \E point \in Points : PredictCluster(point)

SpecClustering == Init /\ [][NextClustering]_vars

-----------------------------------------------------------------------------
(* SimpleClustering.fit, one pass of its loop at a time *)

LloydPointSeq == <<<<0, 0>>, <<Unit, 0>>, <<4 * Unit, 2 * Unit>>>>

LloydPoints == {LloydPointSeq[i] : i \in 1..Len(LloydPointSeq)}

\* the longest list of points fitted pass by pass
MaxLloydPoints == 4

\* The lists of 2 to MaxLloydPoints points, equal points next to each other:
\* random.sample draws positions, so that the order of the list decides
\* nothing the sample does not.
LloydLists ==
    UNION {{[i \in 1..m |-> LloydPointSeq[f[i]]] :
               f \in {g \in [1..m -> 1..Len(LloydPointSeq)] :
                         \A i \in 1..(m - 1) : g[i] <= g[i + 1]}} :
           m \in 2..MaxLloydPoints}

\* the n_clusters of the objects fitted pass by pass
LloydCounts == {NClusters - 3, NClusters - 2}

\* lines 79-85 for k points or more: random.sample has returned init and the
\* loop is about to start
FitSample(X, k, init) ==
    /\ Len(X) >= k
    /\ ml_engine' = [FreshEngine(".") EXCEPT
                         !.clustering = [n_clusters |-> k, centroids |-> init]]
    /\ call' = [NoCall EXCEPT !.op = "fit_loop",
                              !.history = ListOf([i \in 1..Len(X) |-> Entry(X[i])]),
                              !.sample = init]
    /\ result' = [NoResult EXCEPT !.kind = "fit_running", !.n_clusters = k]
    /\ UNCHANGED <<files, calls, save_failed, after_reset>>

\* lines 88-100: one pass of the loop over range(10)
FitPass ==
    /\ result.kind = "fit_running"
    /\ call.pass < LloydIterations
    /\ ml_engine' = [ml_engine EXCEPT !.clustering.centroids =
                         LloydStep(ml_engine.clustering.centroids,
                                   Features(call.history.entries))]
    /\ call' = [call EXCEPT !.pass = call.pass + 1]
    /\ UNCHANGED <<result, files, calls, save_failed, after_reset>>

\* the range is exhausted and fit returns
FitReturn ==
    /\ result.kind = "fit_running"
    /\ call.pass = LloydIterations
    /\ result' = [result EXCEPT !.kind = "fit"]
    /\ UNCHANGED <<ml_engine, call, files, calls, save_failed, after_reset>>

\* one object, fitted once
NextLloyd ==
    \/ /\ ~ml_engine.exists
       /\ \E X \in LloydLists, k \in LloydCounts :
              \E init \in Samples(X, k) : FitSample(X, k, init)
    \/ /\ ~ml_engine.exists
       /\ \E X \in LloydLists : FitFewPoints(X, NClusters)
    \/ FitPass
    \/ FitReturn

SpecLloyd == Init /\ [][NextLloyd]_vars

\* a fit that is running is not suspended: it makes its next pass, and returns
SpecLloydFair == SpecLloyd /\ WF_vars(FitPass) /\ WF_vars(FitReturn)

-----------------------------------------------------------------------------
(* predict_cluster on its own, and within recommend *)

\* SimpleClustering.predict_cluster(point) on an object with the given
\* centroids, which the call records as its sample
PredictOn(centroids, point) ==
    /\ call' = [NoCall EXCEPT !.op = "predict_cluster_on",
                              !.input = [json |-> "list", features |-> point],
                              !.sample = centroids]
    /\ result' = [NoResult EXCEPT !.kind = "cluster",
                      !.cluster = predict_cluster([n_clusters |-> NClusters,
                                                   centroids |-> centroids], point)]
    /\ UNCHANGED <<ml_engine, files, calls, save_failed, after_reset>>

\* predict_cluster applied before there is an engine, then the engine of
\* NextScoring
NextPredict ==
    \/ /\ ~ml_engine.exists
       /\ \E centroids \in PointLists, point \in Points : PredictOn(centroids, point)
    \/ NextScoring

SpecPredict == Init /\ [][NextPredict]_vars

-----------------------------------------------------------------------------
(* cosine_similarity on its own *)

\* the vectors compared: empty, zero, of one, two and three components, with
\* negative components, and one whose square is below the smallest value
\* the arithmetic represents
Vectors ==
    { <<>>, <<0>>, <<0, 0>>,
      <<Unit \div 20>>, <<Unit>>, <<-Unit>>,
      <<Unit \div 2, (9 * Unit) \div 20>>, <<Unit, 0>>, <<0, Unit>>,
      <<-Unit, Unit \div 5>>,
      vA, vB, <<3 * Unit, -(2 * Unit), Unit>> }

\* cosine_similarity(a, b); the call records a as its input and b as the one
\* entry of its history
CosineSimilarity(a, b) ==
    /\ call' = [NoCall EXCEPT !.op = "cosine_similarity",
                              !.input = [json |-> "list", features |-> a],
                              !.history = ListOf(<<Entry(b)>>)]
    /\ result' = [NoResult EXCEPT !.kind = "similarity",
                                  !.score = cosine_similarity(a, b)]
    /\ UNCHANGED <<ml_engine, files, calls, save_failed, after_reset>>

NextVector == \E a \in Vectors, b \in Vectors : CosineSimilarity(a, b)

SpecVector == Init /\ [][NextVector]_vars

-----------------------------------------------------------------------------
(* One trained engine recommending candidates that differ in direction *)

\* three candidates no two of which have the same cosine with the third,
\* and one whose square is below the smallest value the arithmetic represents
ContextCandidates ==
    { [json |-> "list", features |-> vA],
      [json |-> "list", features |-> <<Unit, 0, 0>>],
      [json |-> "list", features |-> <<0, Unit, Unit \div 5>>],
      [json |-> "list", features |-> <<Unit \div 20>>] }

\* the longest window the calls of NextContext build
MaxContextRecent == 7

\* The engine is trained once, then recommends
NextContext ==
    \/ /\ ~ml_engine.exists
       /\ TrainModel(ListOf(Repeat(Entry(vA), MinSamples)), "None", {"ok"})
    \/ /\ ml_engine.exists
       /\ Len(ml_engine.recent_recommendations) < MaxContextRecent
       /\ \E i \in ContextCandidates : GetRecommendation(i, "None")

SpecContext == Init /\ [][NextContext]_vars

-----------------------------------------------------------------------------
(* Properties *)

\* every entry has features, all of one length
WellFormed(h) ==
    /\ h.json = "list"
    /\ \A i \in 1..Len(h.entries) : h.entries[i].has_features
    /\ \A i, j \in 1..Len(h.entries) :
           Len(h.entries[i].features) = Len(h.entries[j].features)

\* the untrained default of recommend
IsDefault(r) ==
    /\ r.score = 50 * Unit
    /\ r.confidence = (3 * Unit) \div 10
    /\ r.cluster = -1

\* C1: a train call that returns success=false leaves is_trained, the
\* scorer's mean, std and profile vector and the centroids as they were
\* before the call (as construction left them, when the call made the engine).
C1_FailedTrainChangesNothing ==
    [][(call'.op = "train_model" /\ ~result'.success) =>
          LET e == GetEngine(call'.dir)
          IN  /\ ml_engine'.is_trained = e.is_trained
              /\ ml_engine'.scorer = e.scorer
              /\ ml_engine'.clustering.centroids = e.clustering.centroids]_vars

\* C2: after reset_model, get_model_status reports is_trained=false and the
\* next get_recommendation returns the untrained default.
C2_ResetThenUntrained ==
    [][/\ (after_reset /\ call'.op = "get_model_status") => ~result'.is_trained
       /\ (after_reset /\ call'.op = "get_recommendation") =>
              (IsDefault(result') /\ result'.message = NotTrainedMsg)]_vars

\* C3: when reset_model returns, the snapshot file of the engine that was
\* reset is gone and the replacement engine is fresh: untrained, no profile,
\* no centroids, an empty window.
C3_ResetLeavesNothing ==
    [][call'.op = "reset_model" =>
          /\ ml_engine.exists => files'[ml_engine.model_dir].kind = "absent"
          /\ ml_engine'.exists
          /\ ~ml_engine'.is_trained
          /\ ml_engine'.scorer = NewScorer
          /\ ml_engine'.clustering.centroids = <<>>
          /\ ml_engine'.recent_recommendations = <<>>]_vars

\* a snapshot file that is missing, unparsable or structurally malformed
Malformed(file) ==
    \/ file.kind \in {"absent", "garbage"}
    \/ file.scorer_shape = "bad"
    \/ file.clustering_shape = "bad"

\* C4: an engine constructed on a missing, unparsable or structurally
\* malformed snapshot file is Uninitialized: untrained, without a profile and
\* without centroids.  (get_model_status constructs the engine when there is
\* none; reset_model always constructs one.)
C4_MalformedFileLoadsUntrained ==
    [][(/\ \/ call'.op = "get_model_status" /\ ~ml_engine.exists
           \/ call'.op = "reset_model"
        /\ Malformed(files'[ResolveDir(call'.dir)])) =>
          /\ ml_engine'.exists
          /\ ~ml_engine'.is_trained
          /\ ml_engine'.scorer = NewScorer
          /\ ml_engine'.clustering.centroids = <<>>]_vars

\* C5: train on a list of fewer than 5 entries returns success=false with the
\* "Insufficient training data" message and changes neither the engine nor
\* the file; a list of exactly 5 well-formed entries is accepted.
C5_FewerThanFiveRejected ==
    [][(call'.op = "train_model" /\ call'.history.json = "list") =>
          /\ Len(call'.history.entries) < 5 =>
                 /\ ~result'.success
                 /\ result'.message = InsufficientMsg
                 /\ ml_engine' = GetEngine(call'.dir)
                 /\ files' = files
          /\ (Len(call'.history.entries) = 5 /\ WellFormed(call'.history)) =>
                 result'.success]_vars

C5_Witness ==
    /\ call.op = "train_model"
    /\ call.history.json = "list"
    /\ Len(call.history.entries) = 4
    /\ ~result.success
    /\ result.message = InsufficientMsg

\* the centroids SimpleClustering.fit can leave for the feature lists of the
\* well-formed histories, one pair for every outcome of random.sample
FitOutcomes ==
    UNION {{<<X, Lloyd(init, X, LloydIterations)>> : init \in Samples(X, NClusters)} :
              X \in {Features(h.entries) :
                        h \in {g \in Histories :
                                 WellFormed(g) /\ Len(g.entries) >= MinSamples}}}

\* what a train on the well-formed entries of the call h leaves, the file apart
TrainedOn(h, e_after, res) ==
    LET X == Features(h.entries)
        means == List([i \in 1..Len(X[1]) |-> Mean(Column(X, i))])
        stds == List([i \in 1..Len(X[1]) |-> Std(Column(X, i))])
    IN  /\ res.success
        /\ res.has_samples
        /\ res.samples_trained = Len(h.entries)
        /\ e_after.is_trained
        /\ e_after.scorer.user_mean = Some(means)
        /\ e_after.scorer.user_std = Some(stds)
        /\ e_after.scorer.user_profile_vector = Some(means)
        /\ <<X, e_after.clustering.centroids>> \in FitOutcomes

\* the file holds the state of engine e, with is_trained=true
HoldsSnapshotOf(file, e) ==
    /\ file.kind = "json"
    /\ file.is_trained
    /\ file.scorer_shape = "object"
    /\ file.scorer = e.scorer
    /\ file.clustering_shape = "object"
    /\ file.clustering = e.clustering

\* C6 as stated: a train on n >= 5 well-formed entries fits the scorer and
\* the clustering from the features, sets is_trained, returns success=true
\* with samples_trained = n, and writes a snapshot with is_trained=true and
\* the new profile and centroids.
C6_TrainWritesSnapshot ==
    [][(/\ call'.op = "train_model"
        /\ WellFormed(call'.history)
        /\ Len(call'.history.entries) >= 5) =>
          /\ TrainedOn(call'.history, ml_engine', result')
          /\ HoldsSnapshotOf(files'[ml_engine'.model_dir], ml_engine')]_vars

\* C6 amended: as C6, but the snapshot is there only when the write
\* succeeds; when open fails the file is as it was, when the write fails
\* after open the file is unparsable; no other file changes.
C6_TrainFitsThenSaves ==
    [][(/\ call'.op = "train_model"
        /\ WellFormed(call'.history)
        /\ Len(call'.history.entries) >= 5) =>
          LET dir == ml_engine'.model_dir
          IN  /\ TrainedOn(call'.history, ml_engine', result')
              /\ call'.save \in SaveOutcomes
              /\ call'.save = "ok" => HoldsSnapshotOf(files'[dir], ml_engine')
              /\ call'.save = "open_failed" => files'[dir] = files[dir]
              /\ call'.save = "write_failed" => files'[dir].kind = "garbage"
              /\ \A d \in Dirs \ {dir} : files'[d] = files[d]]_vars

C6_Witness ==
    /\ call.op = "train_model"
    /\ call.save = "ok"
    /\ result.success
    /\ result.samples_trained = 5
    /\ ml_engine.is_trained
    /\ HoldsSnapshotOf(files[ml_engine.model_dir], ml_engine)

\* C7: while the engine is untrained, recommend returns score 50.0,
\* confidence 0.3, cluster -1, diversity_score 1.0 and the "not trained"
\* message for every input, unparsable input included.
C7_UntrainedReturnsDefault ==
    [][(call'.op = "get_recommendation" /\ ~GetEngine(call'.dir).is_trained) =>
          /\ IsDefault(result')
          /\ result'.has_diversity
          /\ result'.diversity_score = Unit
          /\ result'.message = NotTrainedMsg]_vars

C7_Witness ==
    /\ call.op = "get_recommendation"
    /\ call.input.json = "garbage"
    /\ ml_engine.exists
    /\ ~ml_engine.is_trained
    /\ IsDefault(result)
    /\ result.message = NotTrainedMsg

\* C8: the window is the features of the last min(n, 50) successful
\* recommend calls, in call order; it never holds more than 50 entries, and
\* once there were more than 50 calls the first call's features are not in it.
C8_WindowIsFifo ==
    LET w == ml_engine.recent_recommendations
        n == Len(calls)
    IN  /\ Len(w) <= 50
        /\ Len(w) = Min(n, 50)
        /\ \A i \in 1..Len(w) : w[i] = calls[n - Len(w) + i]
        /\ n > 50 => \A i \in 1..Len(w) : w[i] # calls[1]

C8_Witness ==
    /\ Len(calls) = 51
    /\ Len(ml_engine.recent_recommendations) = 50
    /\ ml_engine.recent_recommendations[50] = calls[51]

\* C9 as stated: every recommend call appends its features to the window,
\* whether the engine is trained or not.
C9_EveryCallAppends ==
    [][(call'.op = "get_recommendation" /\ call'.input.json = "list") =>
          ml_engine'.recent_recommendations =
              Append(GetEngine(call'.dir).recent_recommendations,
                     call'.input.features)]_vars

\* C9 amended: a recommend call appends its features (and drops the oldest
\* entry beyond 50) when the engine is trained and the call succeeds; a call
\* on an untrained engine and a call that fails leave the window as it was.
C9_SuccessfulCallAppends ==
    [][call'.op = "get_recommendation" =>
          LET e == GetEngine(call'.dir)
          IN  IF e.is_trained /\ call'.input.json = "list"
              THEN /\ result'.message = RecommendedMsg
                   /\ ml_engine'.recent_recommendations =
                          LastN(Append(e.recent_recommendations,
                                       call'.input.features), 50)
              ELSE /\ result'.message # RecommendedMsg
                   /\ ml_engine'.recent_recommendations =
                          e.recent_recommendations]_vars

C9_Witness ==
    /\ call.op = "get_recommendation"
    /\ result.message = RecommendedMsg
    /\ Len(ml_engine.recent_recommendations) = 2
    /\ ml_engine.recent_recommendations[2] = call.input.features

\* C10: when the snapshot cannot be written, train still returns
\* success=true and the engine is trained in memory with the new profile; as
\* long as that engine lives, a recommend call with a feature list returns a
\* result computed from the engine in memory, not the default.
C10_SaveFailureDoesNotBlock ==
    [][/\ (call'.op = "train_model" /\ call'.save \in {"open_failed", "write_failed"})
              => TrainedOn(call'.history, ml_engine', result')
       /\ save_failed => (ml_engine.exists /\ ml_engine.is_trained)
       /\ (save_failed /\ call'.op = "get_recommendation"
                       /\ call'.input.json = "list") =>
              /\ result'.message = RecommendedMsg
              /\ result'.cluster >= 0
              /\ result'.score =
                     100 * score_with_context(ml_engine.scorer, call'.input.features,
                               LastN(ml_engine.recent_recommendations, 10))]_vars

C10_Witness ==
    /\ save_failed
    /\ call.op = "get_recommendation"
    /\ result.message = RecommendedMsg
    /\ result.cluster >= 0
    /\ files[ml_engine.model_dir].kind # "json"

C12_StatusReadsOnly ==
    [][call'.op = "get_model_status" =>
          /\ ml_engine.exists => ml_engine' = ml_engine
          /\ ml_engine'.exists
          /\ files' = files
          /\ result'.is_trained = ml_engine'.is_trained
          /\ result'.has_scorer = (ml_engine'.scorer.user_mean # None)
          /\ result'.n_clusters = ml_engine'.clustering.n_clusters
          /\ call.op = "get_model_status" => result' = result]_vars

C12_Witness ==
    /\ call.op = "get_model_status"
    /\ result.is_trained
    /\ result.has_scorer
    /\ result.n_clusters = 5
    /\ ml_engine.is_trained
    /\ Len(ml_engine.recent_recommendations) > 0

\* C13: every result of get_recommendation, on every path, has the five
\* fields score, confidence, cluster, diversity_score and message.  (score,
\* confidence, cluster and message are set on every path of the code;
\* has_diversity records whether the returned object has diversity_score.)
C13_ResultHasFiveFields ==
    [][call'.op = "get_recommendation" =>
          /\ result'.kind = "recommendation"
          /\ result'.message # ""
          /\ result'.has_diversity]_vars

\* the history of scenario B: five entries [0.5] * 14
ScenarioB == ListOf(Repeat(Entry(v14), 5))

\* the first recommend call of an engine just trained on ScenarioB, for [0.5] * 14
FirstOfScenarioB ==
    /\ call.op = "train_model"
    /\ call.history = ScenarioB
    /\ result.success
    /\ call'.op = "get_recommendation"
    /\ call'.input = [json |-> "list", features |-> v14]

\* what scenario B says but for the score: every std is the fallback 1.0,
\* every similarity term is 1, the confidence is within [0.3, 0.95]
ScenarioBHolds ==
    /\ (call'.op = "train_model" /\ call'.history = ScenarioB) =>
           /\ result'.success
           /\ ml_engine'.scorer.user_std = Some(Repeat(Unit, 14))
           /\ ml_engine'.scorer.user_mean = Some(v14)
    /\ FirstOfScenarioB =>
           /\ ml_engine.recent_recommendations = <<>>
           /\ similarity_scores(ml_engine.scorer, v14) = Repeat(Unit, 14)
           /\ result'.message = RecommendedMsg
           /\ result'.confidence >= (3 * Unit) \div 10
           /\ result'.confidence <= (95 * Unit) \div 100

\* C14 as stated: in scenario B the first recommendation for [0.5] * 14 has a
\* score near 100 (here: at least 95 of 100).
C14_ScenarioBScoresNear100 ==
    [][/\ ScenarioBHolds
       /\ FirstOfScenarioB => result'.score >= 95 * Unit]_vars

\* C14 amended: in scenario B every std is 1.0, every similarity term is 1
\* and the confidence is within [0.3, 0.95] (it is 0.5); the score is 75.0:
\* the weighted sum and the cosine both are 1, and the skip penalty of the
\* third feature, 1 - 0.5 * 0.5, multiplies the score by 0.75.
C14_ScenarioBScores75 ==
    [][/\ ScenarioBHolds
       /\ FirstOfScenarioB =>
              /\ result'.score = 75 * Unit
              /\ result'.confidence = Unit \div 2]_vars

C14_Witness ==
    /\ call.op = "get_recommendation"
    /\ call.input.features = v14
    /\ ml_engine.scorer.user_mean = Some(v14)
    /\ ml_engine.scorer.user_std = Some(Repeat(Unit, 14))
    /\ ml_engine.recent_recommendations = <<v14>>
    /\ result.score = 75 * Unit

\* C15: for every scorer state a trained engine has and every candidate,
\* whatever its length, score is within [0, 1] and so is score_with_context;
\* the score recommend returns is within [0, 100].
C15_ScoreWithinRange ==
    [][call'.op = "get_recommendation" =>
          /\ result'.score >= 0
          /\ result'.score <= 100 * Unit
          /\ (GetEngine("None").is_trained /\ call'.input.json = "list") =>
                 LET e == GetEngine("None")
                     x == call'.input.features
                     base == score(e.scorer, x)
                     final == score_with_context(e.scorer, x,
                                  LastN(e.recent_recommendations, 10))
                 IN  /\ 0 <= base /\ base <= Unit
                     /\ 0 <= final /\ final <= Unit
                     /\ result'.score = 100 * final]_vars

\* a candidate longer than the profile and than the weight table was scored
\* against two recent candidates, and one with a skip rate above 2 scored 0
C15_Witness ==
    /\ call.op = "get_recommendation"
    /\ result.message = RecommendedMsg
    /\ ml_engine.scorer.user_mean = Some(v15)
    /\ call.input.features = v16
    /\ Len(ml_engine.recent_recommendations) = 2
    /\ ml_engine.recent_recommendations[1] = <<Unit \div 2, Unit \div 2, 3 * Unit>>
    /\ result.score > 0

\* C16: the confidence of every result of recommend is within [0.3, 0.95]:
\* on the untrained path, on the failure path, and for every candidate,
\* those of fewer than 3 features and those with values outside [0, 1]
\* included.
C16_ConfidenceWithinRange ==
    [][call'.op = "get_recommendation" =>
          /\ result'.confidence >= (3 * Unit) \div 10
          /\ result'.confidence <= (95 * Unit) \div 100]_vars

\* a candidate of two features, -1.0 and 3.0, was scored: its confidence
\* 0.5 * 3.0 + 0.3 - 0.2 is returned as 0.95
C16_Witness ==
    /\ call.op = "get_recommendation"
    /\ call.input.features = <<-Unit, 3 * Unit>>
    /\ result.message = RecommendedMsg
    /\ confidence_score(3 * Unit, 0, -100) > Unit
    /\ result.confidence = (95 * Unit) \div 100

\* C17: fit on fewer points than n_clusters leaves as centroids the points
\* given, in their order, one centroid for each point, and changes nothing
\* else; predict_cluster of the first of these points then returns 0.
C17_FewPointsBecomeCentroids ==
    [][/\ call'.op = "fit" =>
              /\ ml_engine'.clustering.centroids = Features(call'.history.entries)
              /\ Len(ml_engine'.clustering.centroids) = Len(call'.history.entries)
              /\ ml_engine'.clustering.n_clusters = result'.n_clusters
       /\ (/\ call'.op = "predict_cluster"
           /\ ml_engine.clustering.centroids # <<>>
           /\ call'.input.features = ml_engine.clustering.centroids[1]) =>
              result'.cluster = 0]_vars

\* three points were fitted, the first one twice, and the first was predicted
C17_Witness ==
    /\ call.op = "predict_cluster"
    /\ Len(ml_engine.clustering.centroids) = 3
    /\ ml_engine.clustering.n_clusters = 5
    /\ ml_engine.clustering.centroids[1] = call.input.features
    /\ ml_engine.clustering.centroids[3] = call.input.features
    /\ ml_engine.clustering.centroids[2] # call.input.features
    /\ result.cluster = 0

\* C18: is_trained of an engine changes in two ways only.  A train that
\* succeeds leaves it true; recommend, get_status and a train that fails
\* leave it as it was; when a trained engine is followed by an untrained one,
\* the call was reset_model; and when an untrained engine is followed by a
\* trained one, the call was a train that succeeded, or reset_model made a new
\* engine.
C18_FlagChangesByTrainAndReset ==
    [][/\ call'.op \in {"get_recommendation", "get_model_status"} =>
              ml_engine'.is_trained = GetEngine(call'.dir).is_trained
       /\ call'.op = "train_model" =>
              ml_engine'.is_trained =
                  (result'.success \/ GetEngine(call'.dir).is_trained)
       /\ (/\ ml_engine.exists /\ ml_engine.is_trained
           /\ ml_engine'.exists /\ ~ml_engine'.is_trained) =>
              call'.op = "reset_model"
       /\ (/\ ml_engine.exists /\ ~ml_engine.is_trained
           /\ ml_engine'.exists /\ ml_engine'.is_trained) =>
              \/ call'.op = "train_model" /\ result'.success
              \/ call'.op = "reset_model"]_vars

\* a train has failed on a trained engine, which is still trained
C18_Witness ==
    /\ call.op = "train_model"
    /\ ~result.success
    /\ result.message = TrainFailedMsg
    /\ ml_engine.is_trained

\* C19: train_model and get_recommendation return a structured result for
\* malformed input: a train whose argument is not a list of entries with
\* feature vectors of one length returns success=false with a message, and a
\* get_recommendation whose argument is not a list of numbers returns the
\* fallback 50.0 / 0.3 / -1; and on the same engine a well-formed train of 5
\* entries or more still succeeds, as does a well-formed recommend once the
\* engine is trained.
C19_MalformedInputIsRecovered ==
    [][/\ (call'.op = "train_model" /\ ~WellFormed(call'.history)) =>
              /\ ~result'.success
              /\ result'.message \in {InsufficientMsg, TrainFailedMsg}
       /\ (call'.op = "get_recommendation" /\ call'.input.json # "list") =>
              /\ IsDefault(result')
              /\ result'.message \in {NotTrainedMsg, RecommendFailedMsg}
       /\ (/\ call'.op = "train_model"
           /\ WellFormed(call'.history)
           /\ Len(call'.history.entries) >= 5) =>
              result'.success
       /\ (/\ call'.op = "get_recommendation"
           /\ call'.input.json = "list"
           /\ GetEngine(call'.dir).is_trained) =>
              result'.message = RecommendedMsg]_vars

\* C20: cosine_similarity returns a value between 0 and 1 for every pair of
\* vectors: 0 when the two differ in length, are empty, or either is all
\* zeros; 0 when their dot product is negative; and 1 for a vector that is
\* not all zeros compared with itself.
C20_CosineContract ==
    [][call'.op = "cosine_similarity" =>
          LET a == call'.input.features
              b == call'.history.entries[1].features
              r == result'.score
          IN  /\ result'.kind = "similarity"
              /\ r \in 0..Unit
              /\ (\/ Len(a) # Len(b)
                  \/ a = <<>>
                  \/ \A i \in 1..Len(a) : a[i] = 0
                  \/ \A i \in 1..Len(b) : b[i] = 0) => r = 0
              /\ (/\ Len(a) = Len(b)
                  /\ SumSeq([i \in 1..Len(a) |-> a[i] * b[i]]) < 0) => r = 0
              /\ (a = b /\ \E i \in 1..Len(a) : a[i] # 0) => r = Unit]_vars

\* C21: whenever the engine is trained, the scorer's mean, std and profile
\* vector all exist and have one length.
C21_TrainedProfileIsConsistent ==
    (ml_engine.exists /\ ml_engine.is_trained) =>
        /\ ml_engine.scorer.user_mean # None
        /\ ml_engine.scorer.user_std # None
        /\ ml_engine.scorer.user_profile_vector # None
        /\ Len(ml_engine.scorer.user_mean[1]) = Len(ml_engine.scorer.user_std[1])
        /\ Len(ml_engine.scorer.user_std[1]) =
               Len(ml_engine.scorer.user_profile_vector[1])

\* C22: after a successful train the scorer's mean, std and profile vector
\* are those of the batch of this call alone, what a fresh engine trained on
\* it holds, whatever the engine held before; and the centroids are what
\* SimpleClustering.fit derives from the points of this batch, none of them a
\* centroid kept from an earlier training.
C22_TrainReplacesProfile ==
    [][(call'.op = "train_model" /\ result'.success) =>
          LET h == call'.history
          IN  /\ WellFormed(h)
              /\ TrainedOn(h, ml_engine', result')
              /\ ml_engine'.scorer.user_mean = ml_engine'.scorer.user_profile_vector
              /\ Len(ml_engine'.clustering.centroids) = NClusters]_vars

\* an engine that held the profile of five entries vA was trained on five
\* entries vB: the snapshot, which could not be rewritten, still holds the
\* old profile and centroids, the engine holds those of vB only
C22_Witness ==
    /\ call.op = "train_model"
    /\ call.save = "open_failed"
    /\ result.success
    /\ files[ml_engine.model_dir].kind = "json"
    /\ files[ml_engine.model_dir].scorer.user_profile_vector = Some(vA)
    /\ files[ml_engine.model_dir].clustering.centroids[1] = vA
    /\ ml_engine.scorer.user_mean = Some(vB)
    /\ ml_engine.scorer.user_profile_vector = Some(vB)
    /\ \A c \in 1..Len(ml_engine.clustering.centroids) :
           ml_engine.clustering.centroids[c] = vB

\* the score of candidate f with the diversity penalty taken over the
\* entries of `last` alone: base * (1 - 0.3 * average cosine)
PenalisedBy(scorer, f, last) ==
    LET base == score(scorer, f)
        average == SumSeq([i \in 1..Len(last) |-> cosine_similarity(f, last[i])])
                       \div Len(last)
    IN  IF last = <<>> THEN base
        ELSE FMul(base, Unit - FMul((3 * Unit) \div 10, average))

\* C23: the score of a successful recommend call is 100 times the base score
\* penalised by the last 5 entries (fewer when the window is shorter) of the
\* window as it was before the call; the candidate itself, appended by the
\* call, and the entries before the last 5 have no part in it; with an empty
\* window the score is 100 times the base score.
C23_ScoreUsesLastFiveBeforeCall ==
    [][(call'.op = "get_recommendation" /\ result'.message = RecommendedMsg) =>
          LET e == GetEngine(call'.dir)
              f == call'.input.features
              w == e.recent_recommendations
          IN  /\ result'.score = 100 * PenalisedBy(e.scorer, f, LastN(w, 5))
              /\ w = <<>> => result'.score = 100 * score(e.scorer, f)
              /\ ml_engine'.recent_recommendations = LastN(Append(w, f), 50)]_vars

\* the seventh call of an engine: its score is the one the entries 2..6 of
\* the window give, while the entries 1..6 and the entries 3..7 (with the
\* candidate itself) would each give another
C23_Witness ==
    LET w == ml_engine.recent_recommendations
        f == call.input.features
    IN  /\ call.op = "get_recommendation"
        /\ result.message = RecommendedMsg
        /\ Len(w) = 7
        /\ w[7] = f
        /\ result.score = 100 * PenalisedBy(ml_engine.scorer, f, SubSeq(w, 2, 6))
        /\ result.score # 100 * PenalisedBy(ml_engine.scorer, f, SubSeq(w, 1, 6))
        /\ result.score # 100 * PenalisedBy(ml_engine.scorer, f, SubSeq(w, 3, 7))

\* C24: when the first two recommend calls of a trained engine have the same
\* feature vector, not all zeros, the second score is 0.7 times the first;
\* and the score of every successful call is at most 100 times the base score
\* and at least 0.7 times that.
C24_RepeatedCallLosesThirty ==
    [][(call'.op = "get_recommendation" /\ result'.message = RecommendedMsg) =>
          LET e == GetEngine(call'.dir)
              f == call'.input.features
              base == score(e.scorer, f)
          IN  /\ result'.score <= 100 * base
              /\ result'.score >= 100 * FMul(base, (7 * Unit) \div 10)
              /\ (/\ call.op = "get_recommendation"
                  /\ result.message = RecommendedMsg
                  /\ e.recent_recommendations = <<f>>
                  /\ \E i \in 1..Len(f) : f[i] # 0) =>
                     /\ result.score = 100 * base
                     /\ result'.score = 100 * FMul(base, (7 * Unit) \div 10)]_vars

\* the points of X that pass assigns to centroid i: those for which i is the
\* first of the nearest centroids
AssignedTo(i, centroids, X) ==
    {k \in 1..Len(X) :
        /\ \A j \in 1..Len(centroids) :
               DistanceSq(X[k], centroids[i]) <= DistanceSq(X[k], centroids[j])
        /\ \A j \in 1..(i - 1) :
               DistanceSq(X[k], centroids[j]) > DistanceSq(X[k], centroids[i])}

\* What holds at every step of a fit: a pass leaves a centroid that received
\* no point as it was and makes every other centroid the coordinate-wise
\* mean of its points; fit returns after pass 10 and not before, with
\* n_clusters centroids, each of the dimension of the points, the centroids
\* ClusteringFit gives for the same sample; and a fit on fewer points than
\* n_clusters leaves as many centroids as points.
FitStepsHold ==
    [][LET X == Features(call'.history.entries)
           old == ml_engine.clustering.centroids
           new == ml_engine'.clustering.centroids
       IN  /\ (call'.op = "fit_loop" /\ call'.pass = call.pass + 1) =>
                  /\ call'.pass <= 10
                  /\ Len(new) = Len(old)
                  /\ \A i \in 1..Len(old) :
                         LET assigned == AssignedTo(i, old, X)
                         IN  IF assigned = {} THEN new[i] = old[i]
                             ELSE /\ Len(new[i]) = Len(X[1])
                                  /\ \A d \in 1..Len(X[1]) :
                                         new[i][d] =
                                             SumSeq([k \in 1..Len(X) |->
                                                 IF k \in assigned THEN X[k][d] ELSE 0])
                                                 \div Cardinality(assigned)
           /\ (call'.op = "fit_loop" /\ result'.kind = "fit") =>
                  /\ call'.pass = 10
                  /\ new = old
                  /\ new = ClusteringFit([n_clusters |-> result'.n_clusters,
                                           centroids |-> <<>>],
                                          X, call'.sample).centroids
                  /\ Len(X) >= result'.n_clusters
                  /\ Len(new) = result'.n_clusters
                  /\ \A i \in 1..Len(new) : Len(new[i]) = Len(X[1])
           /\ (call'.op = "fit" /\ result'.kind = "fit") =>
                  /\ Len(X) < result'.n_clusters
                  /\ Len(new) = Len(X)]_vars

\* C25: SimpleClustering.fit on n_clusters points or more terminates, after
\* exactly 10 passes each of which leaves a centroid without points as it was
\* and moves every other centroid to the mean of its points, with n_clusters
\* centroids of the dimension of the points; the number of centroids after a
\* fit is min(len(points), n_clusters).
C25_FitTerminatesAfterTenPasses ==
    /\ FitStepsHold
    /\ (result.kind = "fit_running") ~> (result.kind = "fit" /\ call.pass = 10)

\* a fit of 3 clusters has returned after 10 passes: centroid 3 has moved to
\* the mean of its points, centroid 2 receives no point and is the point
\* sampled for it
C25_Witness ==
    LET X == Features(call.history.entries)
        c == ml_engine.clustering.centroids
    IN  /\ call.op = "fit_loop"
        /\ result.kind = "fit"
        /\ call.pass = 10
        /\ Len(c) = 3
        /\ c[3] # call.sample[3]
        /\ c[3] \notin LloydPoints
        /\ c[2] = call.sample[2]
        /\ AssignedTo(2, c, X) = {}
        /\ AssignedTo(2, call.sample, X) = {}
        /\ AssignedTo(3, c, X) # {}

\* r is the index (counted from 0) of the first of the centroids nearest to
\* point, and 0 when there are none
FirstNearest(r, point, centroids) ==
    IF centroids = <<>> THEN r = 0
    ELSE /\ r \in 0..(Len(centroids) - 1)
         /\ \A j \in 1..Len(centroids) :
                DistanceSq(point, centroids[r + 1]) <= DistanceSq(point, centroids[j])
         /\ \A j \in 1..r :
                DistanceSq(point, centroids[j]) > DistanceSq(point, centroids[r + 1])

\* C26: predict_cluster returns the lowest index among the nearest
\* centroids, within 0 .. len(centroids)-1, and 0 when there are no
\* centroids; a successful recommend carries that index for its candidate,
\* within 0 .. n_clusters-1, and a recommend result carries cluster -1 exactly
\* on the untrained-default path and on the failure path.
C26_ClusterIsFirstNearest ==
    [][/\ call'.op = "predict_cluster_on" =>
              FirstNearest(result'.cluster, call'.input.features, call'.sample)
       /\ call'.op = "get_recommendation" =>
              LET e == GetEngine(call'.dir)
              IN  IF result'.message = RecommendedMsg
                  THEN /\ e.is_trained
                       /\ result'.cluster \in 0..(e.clustering.n_clusters - 1)
                       /\ FirstNearest(result'.cluster, call'.input.features,
                                       e.clustering.centroids)
                  ELSE /\ result'.cluster = -1
                       /\ \/ ~e.is_trained /\ result'.message = NotTrainedMsg
                          \/ e.is_trained /\ result'.message = RecommendFailedMsg]_vars

\* a successful recommend whose candidate is nearest to a centroid that is
\* not the first, and as near to a later one
C26_Witness ==
    LET c == ml_engine.clustering.centroids
        f == call.input.features
    IN  /\ call.op = "get_recommendation"
        /\ result.message = RecommendedMsg
        /\ result.cluster > 0
        /\ \E j \in (result.cluster + 2)..Len(c) :
               DistanceSq(f, c[j]) = DistanceSq(f, c[result.cluster + 1])

\* C27: a recommend call on a trained engine that fails returns score 50.0,
\* confidence 0.3, cluster -1 and the failure message, and leaves the engine
\* (window, scorer, centroids, is_trained) and the files as they were.
C27_FailedRecommendChangesNothing ==
    [][(/\ call'.op = "get_recommendation"
        /\ GetEngine(call'.dir).is_trained
        /\ result'.message # RecommendedMsg) =>
          LET e == GetEngine(call'.dir)
          IN  /\ ~Scorable(call'.input)
              /\ IsDefault(result')
              /\ result'.message = RecommendFailedMsg
              /\ ml_engine'.recent_recommendations = e.recent_recommendations
              /\ ml_engine'.scorer = e.scorer
              /\ ml_engine'.clustering = e.clustering
              /\ ml_engine'.is_trained
              /\ files' = files]_vars

\* a value that is no list of numbers was refused by an engine whose window
\* holds the two candidates recommended before
C27_Witness ==
    /\ call.op = "get_recommendation"
    /\ call.input = WrongShape
    /\ result.message = RecommendFailedMsg
    /\ IsDefault(result)
    /\ ml_engine.is_trained
    /\ Len(ml_engine.recent_recommendations) = 2
    /\ ml_engine.recent_recommendations[2] # call.input.features

\* C28: a recommend call leaves is_trained, the scorer, the centroids,
\* n_clusters and every snapshot file as they were, whatever its input and
\* the state of the engine; and every engine that is constructed, from a
\* snapshot or without one, starts with an empty window.
C28_RecommendChangesWindowOnly ==
    [][/\ call'.op = "get_recommendation" =>
              LET e == GetEngine(call'.dir)
              IN  /\ ml_engine'.is_trained = e.is_trained
                  /\ ml_engine'.scorer = e.scorer
                  /\ ml_engine'.clustering.centroids = e.clustering.centroids
                  /\ ml_engine'.clustering.n_clusters = e.clustering.n_clusters
                  /\ ml_engine'.model_dir = e.model_dir
                  /\ files' = files
                  /\ ~ml_engine.exists => e.recent_recommendations = <<>>
       /\ (\/ call'.op = "reset_model"
           \/ ~ml_engine.exists /\ call'.op \in {"train_model", "get_model_status"}) =>
              /\ ml_engine'.exists
              /\ ml_engine'.recent_recommendations = <<>>
       /\ \A d \in DirArgs : NewEngine(d, files').recent_recommendations = <<>>]_vars

\* a trained engine has recommended twice; its snapshot holds its flag, scorer
\* and clustering, and an engine constructed on it has these and no window
C28_Witness ==
    /\ call.op = "get_recommendation"
    /\ result.message = RecommendedMsg
    /\ Len(ml_engine.recent_recommendations) = 2
    /\ HoldsSnapshotOf(files[ml_engine.model_dir], ml_engine)
    /\ NewEngine(ml_engine.model_dir, files).scorer = ml_engine.scorer
    /\ NewEngine(ml_engine.model_dir, files).is_trained
    /\ NewEngine(ml_engine.model_dir, files).recent_recommendations = <<>>

\* C29: an engine that is trained has a scorer profile, and get_status never
\* reports is_trained=true together with has_scorer=false.
C29_TrainedHasScorer ==
    /\ (ml_engine.exists /\ ml_engine.is_trained) =>
           ml_engine.scorer.user_mean # None
    /\ (call.op = "get_model_status" /\ result.is_trained) => result.has_scorer

\* C30: there is one engine.  When there is none, train_model,
\* get_recommendation and get_model_status construct it on the directory of
\* their model_dir argument, from the snapshot there; when there is one, they
\* work on it whatever model_dir they pass: its directory stays, its window
\* is kept or extended, only the file of its directory can change; and
\* reset_model alone replaces it, by an engine on the directory of its own
\* argument.
C30_OneEngineUntilReset ==
    [][/\ (call'.op \in {"train_model", "get_recommendation", "get_model_status"}
              /\ ~ml_engine.exists) =>
              LET made == NewEngine(call'.dir, files)
              IN  /\ ml_engine'.exists
                  /\ ml_engine'.model_dir = ResolveDir(call'.dir)
                  /\ call'.op = "get_model_status" => ml_engine' = made
                  /\ call'.op = "get_recommendation" =>
                         /\ ml_engine'.scorer = made.scorer
                         /\ ml_engine'.clustering = made.clustering
                  /\ \A d \in Dirs \ {ResolveDir(call'.dir)} : files'[d] = files[d]
       /\ (call'.op \in {"train_model", "get_recommendation", "get_model_status"}
              /\ ml_engine.exists) =>
              LET w == ml_engine.recent_recommendations
              IN  /\ ml_engine'.exists
                  /\ ml_engine'.model_dir = ml_engine.model_dir
                  /\ ml_engine'.recent_recommendations
                         \in {w, Append(w, call'.input.features)}
                  /\ call'.op = "get_model_status" => ml_engine' = ml_engine
                  /\ call'.op = "get_recommendation" =>
                         /\ ml_engine'.scorer = ml_engine.scorer
                         /\ ml_engine'.clustering = ml_engine.clustering
                         /\ ml_engine'.is_trained = ml_engine.is_trained
                  /\ \A d \in Dirs \ {ml_engine.model_dir} : files'[d] = files[d]
       /\ call'.op = "reset_model" =>
              /\ ml_engine' = NewEngine(call'.dir, files')
              /\ ml_engine'.model_dir = ResolveDir(call'.dir)
       /\ (ml_engine.exists /\ ml_engine'.exists
              /\ ml_engine'.model_dir # ml_engine.model_dir) =>
              call'.op = "reset_model"]_vars

\* a train_model call that passed the directory d1 has trained the engine
\* made on the default directory, whose window it kept, and has written the
\* snapshot there; there is no file in d1
C30_Witness ==
    /\ call.op = "train_model"
    /\ call.dir = "d1"
    /\ result.success
    /\ call.save = "ok"
    /\ ml_engine.model_dir = "."
    /\ Len(ml_engine.recent_recommendations) = 2
    /\ HoldsSnapshotOf(files["."], ml_engine)
    /\ files["d1"].kind = "absent"

====
